---- MODULE Spec2Model ----
(***************************************************************************)
(* MH-Prospect: the prospect qualification pipeline.                       *)
(*                                                                         *)
(* Python values are modelled as follows.  A str is a TLA+ string; the     *)
(* value None of an optional str is the string None below, which no        *)
(* adapter, configuration or candidate produces as text.  An optional      *)
(* number is an integer, NoneNum standing for None; a Google rating is     *)
(* held in tenths (45 is 4.5).  A dict key that was never set reads as     *)
(* None, which is what dict.get returns for it.                            *)
(***************************************************************************)
EXTENDS Integers, Sequences, FiniteSets, TLC

None == "<None>"
NoneNum == -1

\* Python truth value of an optional str / of an optional number
Truthy(v) == v /= None /\ v /= ""
TruthyNum(n) == n /= NoneNum /\ n /= 0

\* Python `a or b` on optional strs
Or(a, b) == IF Truthy(a) THEN a ELSE b

(***************************************************************************)
(* str helpers: `sub in s`, s.lower(), s.strip(), s.replace(old, new)      *)
(***************************************************************************)
Contains(s, sub) ==
    \E i \in 1..(Len(s) - Len(sub) + 1) : SubSeq(s, i, i + Len(sub) - 1) = sub

ContainsAny(s, mots) == \E mot \in mots : Contains(s, mot)

LowerChar(c) ==
    CASE c = "A" -> "a" [] c = "B" -> "b" [] c = "C" -> "c" [] c = "D" -> "d"
      [] c = "E" -> "e" [] c = "F" -> "f" [] c = "G" -> "g" [] c = "H" -> "h"
      [] c = "I" -> "i" [] c = "J" -> "j" [] c = "K" -> "k" [] c = "L" -> "l"
      [] c = "M" -> "m" [] c = "N" -> "n" [] c = "O" -> "o" [] c = "P" -> "p"
      [] c = "Q" -> "q" [] c = "R" -> "r" [] c = "S" -> "s" [] c = "T" -> "t"
      [] c = "U" -> "u" [] c = "V" -> "v" [] c = "W" -> "w" [] c = "X" -> "x"
      [] c = "Y" -> "y" [] c = "Z" -> "z" [] c = "É" -> "é" [] c = "È" -> "è"
      [] c = "À" -> "à" [] c = "Ô" -> "ô" [] c = "Ö" -> "ö" [] c = "Ç" -> "ç"
      [] OTHER -> c

RECURSIVE Lower(_)
Lower(s) ==
    IF Len(s) = 0 THEN ""
    ELSE LowerChar(SubSeq(s, 1, 1)) \o Lower(SubSeq(s, 2, Len(s)))

RECURSIVE LStrip(_)
LStrip(s) ==
    IF Len(s) > 0 /\ SubSeq(s, 1, 1) = " " THEN LStrip(SubSeq(s, 2, Len(s))) ELSE s

RECURSIVE RStrip(_)
RStrip(s) ==
    IF Len(s) > 0 /\ SubSeq(s, Len(s), Len(s)) = " "
    THEN RStrip(SubSeq(s, 1, Len(s) - 1)) ELSE s

Strip(s) == RStrip(LStrip(s))

RECURSIVE Replace(_, _, _)
Replace(s, old, new) ==
    IF Len(s) < Len(old) THEN s
    ELSE IF SubSeq(s, 1, Len(old)) = old
         THEN new \o Replace(SubSeq(s, Len(old) + 1, Len(s)), old, new)
         ELSE SubSeq(s, 1, 1) \o Replace(SubSeq(s, 2, Len(s)), old, new)

(***************************************************************************)
(* Relevance filter (main.py)                                              *)
(***************************************************************************)
detecter_pays_entreprise(nom, site_web) ==
    LET nom_safe == Or(nom, "")
        site_web_safe == Or(site_web, "")
        site == Lower(site_web_safe)
        texte_complet == Lower(nom_safe \o " " \o site_web_safe)
    IN  IF Contains(site, ".qc.ca") \/ Contains(site, ".quebec") THEN "qc"
        ELSE IF Contains(site, ".ch") THEN "ch"
        ELSE IF Contains(site, ".fr") /\ ~Contains(site, ".qc.ca") THEN "fr"
        ELSE IF Contains(site, ".ca") /\ ~Contains(site, ".qc.ca") THEN "ca"
        ELSE IF Contains(site, ".be") THEN "be"
        ELSE IF Contains(site, ".lu") THEN "lu"
        ELSE IF /\ Contains(texte_complet, "québec") \/ Contains(texte_complet, "quebec")
                /\ \/ Contains(texte_complet, "montréal")
                   \/ Contains(texte_complet, "montreal")
                   \/ Contains(texte_complet, "canada")
             THEN "qc"
        ELSE IF /\ Contains(texte_complet, "montréal") \/ Contains(texte_complet, "montreal")
                /\ Contains(texte_complet, "canada")
             THEN "qc"
        ELSE IF Contains(texte_complet, "suisse") \/ Contains(texte_complet, "switzerland")
             THEN "ch"
        ELSE IF Contains(texte_complet, "france") /\ ~Contains(texte_complet, "quebec")
             THEN "fr"
        ELSE IF /\ Contains(texte_complet, "canada")
                /\ ~Contains(texte_complet, "québec")
                /\ ~Contains(texte_complet, "quebec")
             THEN "ca"
        ELSE None

normaliser_pays_cible(pays) ==
    LET pays_lower == Strip(Lower(Or(pays, "")))
    IN  IF pays_lower \in {"suisse", "switzerland", "schweiz", "ch"} THEN "ch"
        ELSE IF pays_lower \in {"france", "fr"} THEN "fr"
        ELSE IF pays_lower \in {"québec", "quebec", "qc", "montréal", "montreal"} THEN "qc"
        ELSE IF pays_lower \in {"canada", "ca"} THEN "ca"
        ELSE IF pays_lower \in {"belgium", "belgique", "belgie", "be"} THEN "be"
        ELSE IF pays_lower \in {"luxembourg", "lu"} THEN "lu"
        ELSE pays_lower

\* faulty variant: Canada and Québec accept each other
pays_correspond_symetrique(pays_cible, pays_resultat) ==
    LET cible_normalise == normaliser_pays_cible(pays_cible)
    IN  IF cible_normalise \in {"qc", "ca"} THEN pays_resultat \in {"ca", "qc"}
        ELSE pays_resultat = cible_normalise

pays_correspond(pays_cible, pays_resultat) ==
    LET cible_normalise == normaliser_pays_cible(pays_cible)
    IN  IF cible_normalise = "qc" THEN pays_resultat = "qc"
        ELSE IF cible_normalise = "ca" THEN pays_resultat \in {"ca", "qc"}
        ELSE IF cible_normalise = "ch" THEN pays_resultat = "ch"
        ELSE IF cible_normalise = "fr" THEN pays_resultat = "fr"
        ELSE pays_resultat = cible_normalise

\* faulty variant: the geography check looks at the website only
FiltreGeographiqueSiteSeul(pays, nom, site_web) ==
    /\ Truthy(pays)
    /\ Truthy(site_web)
    /\ LET pays_resultat == detecter_pays_entreprise("", site_web)
       IN  Truthy(pays_resultat) /\ ~pays_correspond(pays, pays_resultat)

\* the dynamic geography check at the head of the filter
FiltreGeographique(pays, nom, site_web) ==
    /\ Truthy(pays)
    /\ LET pays_resultat == detecter_pays_entreprise(nom, site_web)
       IN  Truthy(pays_resultat) /\ ~pays_correspond(pays, pays_resultat)

domaines_exclus ==
    {"accor.com", "booking.com", "expedia.com", "tripadvisor.com",
     "airbnb.com", "trivago.com", "agoda.com", "hotels.com",
     "groupon.com", "uber.com", "deliveroo.com", "justeat.com"}

patterns_exclus ==
    {"/restaurant-", "/hotel-", "/shop-", "/store-", "/location-",
     ".accor.com", ".booking.", ".expedia.", ".tripadvisor.",
     "/fr/restaurant", "/fr/hotel", "/en/restaurant", "/en/hotel"}

mots_immobilier ==
    {"immobilier", "real estate", "agence immobilière",
     "homegate", "immoscout", "immoweb"}

grandes_entreprises ==
    {"coop", "migros", "denner", "aldi", "lidl", "manor", "globus",
     "galaxus", "digitec", "amazon", "booking", "trivago", "expedia",
     "comparis", "ricardo", "anibis", "homegate", "immoscout", "immoweb",
     "accor", "tripadvisor", "airbnb", "hotels.com",
     "marriott", "hilton", "hyatt", "novotel", "ibis", "mercure", "sofitel",
     "mcdonald", "burger king", "kfc", "subway", "pizza hut", "domino",
     "starbucks", "nespresso", "pret a manger",
     "zara", "h&m", "mango", "bershka", "pull & bear", "stradivarius",
     "c&a", "primark", "new look", "river island",
     "ikea", "conforama", "pfister", "micasa", "möbel pfister",
     "media markt", "fnac", "saturn", "boulanger", "darty",
     "ubs", "credit suisse", "raiffeisen", "postfinance", "swisscom",
     "sunrise", "orange", "salt", "telecom",
     "nike", "adidas", "puma", "decathlon", "interdiscount", "interio",
     "rts", "24heures", "lematin", "20min", "letemps", "tdg", "blick", "srf", "nzz",
     "filiale", "succursale", "branch", "subsidiary"}

mots_gouvernement ==
    {"ville-", "commune-", "administration", "canton", "ge.ch", "admin.ch", ".gov"}

mots_medias ==
    {"rts.ch", "24heures.ch", "lematin.ch", "20min.ch",
     "letemps.ch", "tdg.ch", "blick.ch", "srf.ch", "nzz.ch",
     "rts", "24heures", "20 minutes"}

\* the category exclusions that follow the geography check
ExclusionCategorie(nom, site_web) ==
    LET nom_lower == Lower(Or(nom, ""))
        site_lower == Lower(Or(site_web, ""))
        texte_complet == nom_lower \o " " \o site_lower
    IN  \/ ContainsAny(site_lower, domaines_exclus)
        \/ ContainsAny(site_lower, patterns_exclus)
        \/ ContainsAny(texte_complet, mots_immobilier)
        \/ ContainsAny(texte_complet, grandes_entreprises)
        \/ ContainsAny(texte_complet, mots_gouvernement)
        \/ ContainsAny(texte_complet, mots_medias)

\* faulty variant: a candidate whose country cannot be inferred is rejected
est_entreprise_sans_pays_rejetee(pays, nom, site_web) ==
    IF FiltreGeographique(pays, nom, site_web) THEN TRUE
    ELSE IF Truthy(pays) /\ ~Truthy(detecter_pays_entreprise(nom, site_web)) THEN TRUE
    ELSE ExclusionCategorie(nom, site_web)

est_entreprise_non_pertinente(pays, nom, site_web) ==
    IF FiltreGeographique(pays, nom, site_web) THEN TRUE
    ELSE ExclusionCategorie(nom, site_web)

(***************************************************************************)
(* Scoring engine (scoring.py).  Points are held in tenths, so that the    *)
(* fractions 0.9, 0.8, 0.7, 0.6, 0.5 and 0.4 of a weight stay integers.    *)
(***************************************************************************)
RECURSIVE Split(_, _)
\* s.split(sep) for a one-character sep
Split(s, sep) ==
    IF ~Contains(s, sep) THEN <<s>>
    ELSE LET i == CHOOSE k \in 1..Len(s) :
                      /\ SubSeq(s, k, k) = sep
                      /\ \A j \in 1..(k - 1) : SubSeq(s, j, j) /= sep
         IN  <<SubSeq(s, 1, i - 1)>> \o Split(SubSeq(s, i + 1, Len(s)), sep)

\* [t.strip() for t in technologies_str.split(",") if t.strip()]
ListeTechnologies(technologies_str) ==
    IF ~Truthy(technologies_str) THEN <<>>
    ELSE LET morceaux == Split(technologies_str, ",")
         IN  SelectSeq([i \in 1..Len(morceaux) |-> Strip(morceaux[i])],
                       LAMBDA t : t /= "")

StartsWith(s, prefixe) ==
    Len(s) >= Len(prefixe) /\ SubSeq(s, 1, Len(prefixe)) = prefixe

poids_defaut ==
    [email |-> 20, telephone |-> 15, linkedin |-> 10, site_web |-> 10,
     note_google |-> 10, nb_avis |-> 5, taille_entreprise |-> 10,
     industrie_pertinente |-> 15, technologies_detectees |-> 5]

\* service is self.service_propose, already lower-cased by __init__
determiner_poids_par_service(service) ==
    IF ContainsAny(service, {"site web", "website", "internet", "web",
                             "développement", "développeur"})
    THEN [poids_defaut EXCEPT !.site_web = 15, !.technologies_detectees = 15,
                              !.email = 18, !.note_google = 8]
    ELSE IF ContainsAny(service, {"marketing", "communication", "publicité",
                                  "seo", "réseaux sociaux"})
    THEN [poids_defaut EXCEPT !.note_google = 20, !.nb_avis = 15,
                              !.linkedin = 15, !.email = 20]
    ELSE IF ContainsAny(service, {"conseil", "consulting", "accompagnement", "audit"})
    THEN [poids_defaut EXCEPT !.linkedin = 25, !.taille_entreprise = 20,
                              !.industrie_pertinente = 20, !.email = 18]
    ELSE IF ContainsAny(service, {"commerce", "e-commerce", "boutique", "vente"})
    THEN [poids_defaut EXCEPT !.note_google = 20, !.nb_avis = 15,
                              !.telephone = 18, !.site_web = 12]
    ELSE poids_defaut

InSeq(x, seq) == \E i \in 1..Len(seq) : seq[i] = x

analyser_site_web(site_web, technologies) ==
    IF ~Truthy(site_web) \/ ~StartsWith(site_web, "http")
    THEN [pas_de_site |-> TRUE, cms_ancien |-> FALSE,
          site_moderne |-> FALSE, opportunite_refonte |-> FALSE]
    ELSE LET techs_lower == [i \in 1..Len(technologies) |-> Lower(technologies[i])]
             ancien == \E cms \in {"wordpress", "joomla", "drupal", "prestashop"} :
                           InSeq(cms, techs_lower)
             moderne == \E tech \in {"react", "vue", "angular", "next.js"} :
                           InSeq(tech, techs_lower)
         IN  [pas_de_site |-> FALSE, cms_ancien |-> ancien,
              site_moderne |-> moderne, opportunite_refonte |-> ancien]

\* faulty variant: a catch-all address counts as an unverified one
PointsEmailSansCatchAll(poids, prospect) ==
    IF Truthy(prospect.email) /\ prospect.email_status = "valid" THEN poids.email * 10
    ELSE IF Truthy(prospect.email) THEN poids.email * 5
    ELSE 0

\* 1. email signal, in tenths
PointsEmail(poids, prospect) ==
    IF Truthy(prospect.email) /\ prospect.email_status = "valid" THEN poids.email * 10
    ELSE IF Truthy(prospect.email) /\ prospect.email_status = "catch-all" THEN poids.email * 7
    ELSE IF Truthy(prospect.email) THEN poids.email * 5
    ELSE 0

\* 2. and 3. phone and company LinkedIn
PointsTelephone(poids, prospect) ==
    IF Truthy(prospect.telephone) THEN poids.telephone * 10 ELSE 0

PointsLinkedin(poids, prospect) ==
    IF Truthy(prospect.linkedin_entreprise) THEN poids.linkedin * 10 ELSE 0

\* 4. website signal
PointsSiteWeb(service, poids, prospect) ==
    LET technologies == ListeTechnologies(prospect.technologies)
        signaux_site == analyser_site_web(prospect.site_web, technologies)
    IN  IF signaux_site.pas_de_site
        THEN IF ContainsAny(service, {"web", "site", "développement", "création site"})
             THEN (poids.site_web + 10) * 10
             ELSE 0
        ELSE poids.site_web * 10 +
             (IF ContainsAny(service, {"web", "site", "développement", "création site"})
              THEN IF signaux_site.opportunite_refonte \/ signaux_site.cms_ancien THEN 80
                   ELSE IF signaux_site.site_moderne THEN 20
                   ELSE IF Len(technologies) = 0 THEN 50
                   ELSE 0
              ELSE IF ContainsAny(service, {"marketing", "communication", "seo", "visibilité"})
              THEN IF signaux_site.site_moderne THEN 40
                   ELSE IF Len(technologies) > 0 THEN 30
                   ELSE 20
              ELSE 0)

\* 5. Google rating; note_google is held in tenths
PointsNote(poids, prospect) ==
    IF ~TruthyNum(prospect.note_google) THEN 0
    ELSE IF prospect.note_google >= 45 THEN poids.note_google * 10
    ELSE IF prospect.note_google >= 40 THEN poids.note_google * 8
    ELSE IF prospect.note_google >= 35 THEN poids.note_google * 6
    ELSE poids.note_google * 4

\* 6. review count, read from the key nb_avis
PointsAvis(poids, prospect) ==
    IF ~TruthyNum(prospect.nb_avis) THEN 0
    ELSE IF prospect.nb_avis >= 50 THEN poids.nb_avis * 10
    ELSE IF prospect.nb_avis >= 20 THEN poids.nb_avis * 8
    ELSE IF prospect.nb_avis >= 10 THEN poids.nb_avis * 6
    ELSE poids.nb_avis * 4

\* 7. company size bracket
PointsTaille(poids, prospect) ==
    IF ~Truthy(prospect.taille_entreprise) THEN 0
    ELSE LET taille_lower == Lower(prospect.taille_entreprise)
         IN  IF ContainsAny(taille_lower, {"11-50", "51-200", "201-500"})
             THEN poids.taille_entreprise * 10
             ELSE IF ContainsAny(taille_lower, {"1-10", "2-10"})
             THEN poids.taille_entreprise * 8
             ELSE IF ContainsAny(taille_lower, {"501-1000", "1001-5000"})
             THEN poids.taille_entreprise * 7
             ELSE poids.taille_entreprise * 6

\* 8. industry relevance
PointsIndustrie(service, poids, prospect) ==
    LET industrie == Lower(Or(prospect.industrie, ""))
    IN  IF industrie = "" THEN 0
        ELSE IF ContainsAny(service, {"web", "site", "développement"})
        THEN IF ContainsAny(industrie, {"commerce", "retail", "restaurant", "hotel", "service"})
             THEN poids.industrie_pertinente * 10
             ELSE poids.industrie_pertinente * 7
        ELSE IF ContainsAny(service, {"marketing", "communication"})
        THEN IF ContainsAny(industrie, {"commerce", "retail", "restaurant",
                                        "service", "professional"})
             THEN poids.industrie_pertinente * 10
             ELSE poids.industrie_pertinente * 8
        ELSE poids.industrie_pertinente * 9

\* 9. detected technologies
PointsTechnologies(service, poids, prospect) ==
    LET techs_list == ListeTechnologies(prospect.technologies)
        techs_lower == [i \in 1..Len(techs_list) |-> Lower(techs_list[i])]
    IN  IF Len(techs_list) = 0 THEN 0
        ELSE IF ContainsAny(service, {"web", "site", "développement", "création site"})
        THEN IF \E i \in 1..Len(techs_lower) :
                    techs_lower[i] \in {"wordpress", "prestashop", "joomla", "drupal"}
             THEN poids.technologies_detectees * 10
             ELSE IF \E i \in 1..Len(techs_lower) :
                         techs_lower[i] \in {"react", "vue", "angular"}
             THEN poids.technologies_detectees * 6
             ELSE poids.technologies_detectees * 8
        ELSE poids.technologies_detectees * 9

\* score_total before normalisation, in tenths
SommePoints(service_propose, prospect) ==
    LET service == Lower(Or(service_propose, ""))
        poids == determiner_poids_par_service(service)
    IN  PointsEmail(poids, prospect) + PointsTelephone(poids, prospect)
        + PointsLinkedin(poids, prospect) + PointsSiteWeb(service, poids, prospect)
        + PointsNote(poids, prospect) + PointsAvis(poids, prospect)
        + PointsTaille(poids, prospect) + PointsIndustrie(service, poids, prospect)
        + PointsTechnologies(service, poids, prospect)

Min(a, b) == IF a <= b THEN a ELSE b
Max(a, b) == IF a >= b THEN a ELSE b

\* faulty variant: the upper clamp is missing
NormaliserSansPlafond(somme) == Max(0, somme) \div 10

\* score_total = min(100, max(0, score_total)); return int(score_total)
Normaliser(somme) == Min(1000, Max(0, somme)) \div 10

calculer_score(service_propose, prospect) ==
    Normaliser(SommePoints(service_propose, prospect))

\* faulty variant: the boundaries belong to the lower category
obtenir_categorie_score_stricte(score) ==
    IF score > 80 THEN "excellent"
    ELSE IF score > 60 THEN "bon"
    ELSE IF score > 40 THEN "moyen"
    ELSE "faible"

obtenir_categorie_score(score) ==
    IF score >= 80 THEN "excellent"
    ELSE IF score >= 60 THEN "bon"
    ELSE IF score >= 40 THEN "moyen"
    ELSE "faible"

(***************************************************************************)
(* Storage (database.py): the prospects table is a sequence of rows, the   *)
(* row's id being its position.  Of the columns, those the pipeline's      *)
(* contract speaks of are kept.                                            *)
(***************************************************************************)
Ligne(prospect_data) ==
    [nom_entreprise |-> prospect_data.nom_entreprise,
     site_web |-> prospect_data.site_web,
     telephone |-> prospect_data.telephone,
     email |-> prospect_data.email,
     linkedin_entreprise |-> prospect_data.linkedin_entreprise,
     message_personnalise |-> prospect_data.message_personnalise,
     point_specifique |-> prospect_data.point_specifique,
     email_status |-> prospect_data.email_status,
     score |-> IF prospect_data.score = NoneNum THEN 0 ELSE prospect_data.score,
     date_traitement |-> "ajouter_prospect",
     statut |-> "traite"]

\* UNIQUE(nom_entreprise, site_web) as SQLite enforces it: two rows conflict
\* when both columns are equal and neither is NULL (NULLs are distinct)
ConflitUnique(ligne, nom_entreprise, site_web) ==
    /\ ligne.nom_entreprise = nom_entreprise
    /\ ligne.site_web /= None
    /\ site_web /= None
    /\ ligne.site_web = site_web

\* faulty variant: INSERT OR REPLACE, the conflicting row gives way to the
\* new one
ajouter_prospect_remplace(table, prospect_data) ==
    IF prospect_data.nom_entreprise = None THEN table
    ELSE Append(SelectSeq(table,
                    LAMBDA ligne : ~ConflitUnique(ligne, prospect_data.nom_entreprise,
                                                  prospect_data.site_web)),
                Ligne(prospect_data))

\* INSERT OR IGNORE: the table after ajouter_prospect(prospect_data)
ajouter_prospect(table, prospect_data) ==
    IF \/ prospect_data.nom_entreprise = None
       \/ \E i \in 1..Len(table) :
              ConflitUnique(table[i], prospect_data.nom_entreprise, prospect_data.site_web)
    THEN table
    ELSE Append(table, Ligne(prospect_data))

\* UPDATE ... SET every column: a variant of update_prospect that also blanks
\* the contact columns of the row
update_prospect_contact(table, prospect_id, statut) ==
    IF prospect_id \in 1..Len(table)
    THEN [table EXCEPT ![prospect_id].statut = statut,
                       ![prospect_id].date_traitement = "update_prospect",
                       ![prospect_id].telephone = None]
    ELSE table

\* PUT /api/prospects/<id> of the web interface:
\* UPDATE prospects SET statut = ?, date_traitement = ? WHERE id = ?.
\* Rows are never deleted, so the id of a row is its position in the table;
\* date_traitement holds the time of the write, kept here as the name of the
\* operation that stamped it.
update_prospect(table, prospect_id, statut) ==
    IF prospect_id \in 1..Len(table)
    THEN [table EXCEPT ![prospect_id].statut = statut,
                       ![prospect_id].date_traitement = "update_prospect"]
    ELSE table

\* faulty variant: a row matches only when name and website are both equal
prospect_existe_paire(table, nom_entreprise, site_web) ==
    \E i \in 1..Len(table) :
        /\ table[i].nom_entreprise = nom_entreprise
        /\ table[i].site_web = site_web

prospect_existe(table, nom_entreprise, site_web) ==
    IF Truthy(site_web)
    THEN \E i \in 1..Len(table) :
             \/ table[i].nom_entreprise = nom_entreprise
             \/ table[i].site_web = site_web
    ELSE \E i \in 1..Len(table) : table[i].nom_entreprise = nom_entreprise

(***************************************************************************)
(* Message generation (openai_client.py).  reponse is what the chat        *)
(* completion call produced: an API error, text that is no JSON, or a JSON *)
(* object whose two fields are each absent, null, or a str.                *)
(***************************************************************************)
Absent == "<absent>"

MessageParDefaut(message_base, nom_entreprise, proposition_valeur) ==
    Replace(Replace(Replace(Replace(message_base,
        "{nom_dirigeant}", "Monsieur/Madame"),
        "{nom_entreprise}", nom_entreprise),
        "{point_specifique}", "votre expertise"),
        "{proposition_valeur}", proposition_valeur)

\* result.get(cle, defaut)
DictGet(valeur, defaut) == IF valeur = Absent THEN defaut ELSE valeur

generer_message_personnalise(reponse, entreprise_data, message_base, proposition_valeur) ==
    IF reponse.genre = "json"
    THEN [message_personnalise |-> DictGet(reponse.message_personnalise, message_base),
          point_specifique |->
              DictGet(reponse.point_specifique, "expertise dans votre domaine")]
    ELSE [message_personnalise |->
              MessageParDefaut(message_base, entreprise_data.nom_entreprise,
                               proposition_valeur),
          point_specifique |-> "expertise dans votre domaine"]

analyser_entreprise_pertinence(reponse, service_propose) ==
    IF reponse.genre = "json"
    THEN [raison_choix |->
              DictGet(reponse.raison_choix,
                      "PME locale qui pourrait bénéficier de nos services"),
          proposition_service |->
              DictGet(reponse.proposition_service,
                      "Amélioration de leur présence digitale avec " \o service_propose)]
    ELSE [raison_choix |-> "PME locale qui pourrait bénéficier de " \o service_propose,
          proposition_service |->
              "Amélioration de leur présence digitale avec " \o service_propose]

selectionner_template_message(config, prospect) ==
    LET texte_complet == Lower(Or(prospect.nom_entreprise, "") \o " "
                               \o Or(prospect.industrie, "") \o " "
                               \o Or(prospect.description, ""))
    IN  IF ContainsAny(texte_complet,
                       {"plombier", "électricien", "maçon", "menuisier", "charpentier",
                        "peintre", "chauffagiste", "artisan"})
        THEN config.message_artisan
        ELSE IF ContainsAny(texte_complet,
                            {"restaurant", "boutique", "commerce", "retail", "magasin",
                             "épicerie", "boulangerie", "coiffeur", "salon"})
        THEN config.message_commerce
        ELSE IF ContainsAny(texte_complet,
                            {"cabinet", "fiduciaire", "consultant", "conseil", "avocat",
                             "comptable", "agence", "bureau", "société"})
        THEN config.message_b2b
        ELSE config.message_base

(***************************************************************************)
(* traiter_prospect (main.py), stage by stage.  etat is the record of the  *)
(* function's locals: prospect_complet, email_trouve, telephone_trouve,    *)
(* donnees_entreprise.                                                     *)
(***************************************************************************)
ProspectVide ==
    [nom_entreprise |-> "", site_web |-> None, telephone |-> None,
     description |-> "", linkedin_entreprise |-> None, adresse_complete |-> None,
     note_google |-> NoneNum, nb_avis_google |-> NoneNum, nb_avis |-> NoneNum,
     email |-> None, email_status |-> None, taille_entreprise |-> None,
     industrie |-> None, revenue_estime |-> None, technologies |-> None,
     score |-> NoneNum, raison_choix |-> None, proposition_service |-> None,
     template_utilise |-> None, message_personnalise |-> None,
     point_specifique |-> None]

ApolloAbsent ==
    [trouve |-> FALSE, telephone |-> None, linkedin_entreprise |-> None,
     site_web |-> None, taille |-> None, industrie |-> None, revenue |-> None]

GoogleMapsAbsent ==
    [trouve |-> FALSE, telephone |-> None, site_web |-> None, adresse |-> None,
     note |-> NoneNum, nb_avis |-> NoneNum]

\* lines 413-427
EtatInitial(entreprise) ==
    [prospect_complet |->
         [ProspectVide EXCEPT !.nom_entreprise = entreprise.nom_entreprise,
                              !.site_web = entreprise.site_web,
                              !.telephone = entreprise.telephone,
                              !.description = entreprise.description],
     email_trouve |-> None,
     telephone_trouve |-> None,
     donnees_entreprise |-> ApolloAbsent]

\* 1.1 lines 430-448
AppelApollo(config, etat) ==
    /\ config.apollo
    /\ \/ Truthy(etat.prospect_complet.site_web)
       \/ Truthy(etat.prospect_complet.nom_entreprise)

FusionApollo(etat, entreprise_apollo) ==
    IF ~entreprise_apollo.trouve THEN etat
    ELSE LET p == etat.prospect_complet
         IN  [etat EXCEPT
                !.donnees_entreprise = entreprise_apollo,
                !.telephone_trouve =
                    IF Truthy(entreprise_apollo.telephone)
                    THEN entreprise_apollo.telephone ELSE @,
                !.prospect_complet =
                    [p EXCEPT
                       !.linkedin_entreprise =
                           IF Truthy(entreprise_apollo.linkedin_entreprise)
                           THEN entreprise_apollo.linkedin_entreprise ELSE @,
                       !.site_web =
                           IF Truthy(entreprise_apollo.site_web) /\ ~Truthy(p.site_web)
                           THEN entreprise_apollo.site_web ELSE @]]

\* 1.2 lines 451-459
AppelHunter(etat) ==
    ~Truthy(etat.email_trouve) /\ Truthy(etat.prospect_complet.site_web)

FusionHunter(etat, email_hunter) ==
    IF Truthy(email_hunter) THEN [etat EXCEPT !.email_trouve = email_hunter] ELSE etat

\* 1.3 lines 462-481
AppelGoogleMaps(config, etat) ==
    config.google_maps /\ ~Truthy(etat.telephone_trouve)

FusionGoogleMaps(etat, entreprise_gmaps) ==
    IF ~entreprise_gmaps.trouve THEN etat
    ELSE LET p == etat.prospect_complet
         IN  [etat EXCEPT
                !.telephone_trouve =
                    IF Truthy(entreprise_gmaps.telephone) /\ ~Truthy(etat.telephone_trouve)
                    THEN entreprise_gmaps.telephone ELSE @,
                !.prospect_complet =
                    [p EXCEPT
                       !.site_web =
                           IF Truthy(entreprise_gmaps.site_web) /\ ~Truthy(p.site_web)
                           THEN entreprise_gmaps.site_web ELSE @,
                       !.adresse_complete =
                           IF Truthy(entreprise_gmaps.adresse)
                           THEN entreprise_gmaps.adresse ELSE @,
                       !.note_google =
                           IF TruthyNum(entreprise_gmaps.note)
                           THEN entreprise_gmaps.note ELSE @,
                       !.nb_avis_google =
                           IF TruthyNum(entreprise_gmaps.nb_avis)
                           THEN entreprise_gmaps.nb_avis ELSE @]]

\* faulty variant: the candidate's own phone wins over the adapters'
AssignerResultatsCandidatDAbord(etat) ==
    [etat EXCEPT
       !.prospect_complet =
           [@ EXCEPT !.email = etat.email_trouve,
                     !.telephone = Or(@, etat.telephone_trouve)]]

\* lines 484-485
AssignerResultats(etat) ==
    [etat EXCEPT
       !.prospect_complet =
           [@ EXCEPT !.email = etat.email_trouve,
                     !.telephone = Or(etat.telephone_trouve, @)]]

\* verifier_email (zerobounce_client.py): api is the HTTP exchange, a request
\* error or the JSON object the service answered
verifier_email(api) ==
    IF api.genre = "json"
    THEN [status |-> DictGet(api.status, "unknown")]
    ELSE [status |-> "unknown"]

\* 1.5 lines 488-524
AppelZeroBounce(config, etat) == Truthy(etat.email_trouve) /\ config.zerobounce

\* faulty variant: the adapter's status is stored as returned, null included
FusionZeroBounceSansDefaut(etat, verification) ==
    [etat EXCEPT !.prospect_complet.email_status = verification.status]

FusionZeroBounce(etat, verification) ==
    [etat EXCEPT !.prospect_complet.email_status = Or(verification.status, "unknown")]

\* lines 529-535
EnrichirDonnees(etat) ==
    LET d == etat.donnees_entreprise
    IN  IF ~d.trouve THEN etat
        ELSE [etat EXCEPT
                !.prospect_complet =
                    [@ EXCEPT
                       !.taille_entreprise = IF Truthy(d.taille) THEN d.taille ELSE @,
                       !.industrie = IF Truthy(d.industrie) THEN d.industrie ELSE @,
                       !.revenue_estime = IF Truthy(d.revenue) THEN d.revenue ELSE @]]

RECURSIVE Join(_, _)
\* sep.join(liste)
Join(liste, sep) ==
    IF Len(liste) = 0 THEN ""
    ELSE IF Len(liste) = 1 THEN liste[1]
    ELSE liste[1] \o sep \o Join(Tail(liste), sep)

\* 2. lines 538-548: detection is the list detecter returned, or its exception
AppelTechnologies(etat) == Truthy(etat.prospect_complet.site_web)

FusionTechnologies(etat, detection) ==
    [etat EXCEPT !.prospect_complet.technologies =
        IF detection.genre = "liste" THEN Join(detection.technologies, ",") ELSE ""]

\* 3. lines 551-558
AppelLinkedin(etat) ==
    /\ ~Truthy(etat.prospect_complet.linkedin_entreprise)
    /\ Truthy(etat.prospect_complet.nom_entreprise)

FusionLinkedin(etat, linkedin_entreprise) ==
    IF Truthy(linkedin_entreprise)
    THEN [etat EXCEPT !.prospect_complet.linkedin_entreprise = linkedin_entreprise]
    ELSE etat

\* 4. lines 561-568
FusionScore(config, etat) ==
    [etat EXCEPT !.prospect_complet.score =
        calculer_score(config.service_propose, etat.prospect_complet)]

\* 5. lines 571-583
FusionAnalyse(config, etat, reponse) ==
    LET analyse == analyser_entreprise_pertinence(reponse, config.service_propose)
    IN  [etat EXCEPT
           !.prospect_complet =
               [@ EXCEPT !.raison_choix = analyse.raison_choix,
                         !.proposition_service = analyse.proposition_service]]

\* 6. and 7. lines 586-613
FusionMessage(config, etat, reponse) ==
    LET template_a_utiliser == selectionner_template_message(config, etat.prospect_complet)
        resultat_ia == generer_message_personnalise(reponse, etat.prospect_complet,
                           template_a_utiliser, config.proposition_valeur)
    IN  [etat EXCEPT
           !.prospect_complet =
               [@ EXCEPT !.template_utilise = template_a_utiliser,
                         !.message_personnalise = resultat_ia.message_personnalise,
                         !.point_specifique = resultat_ia.point_specifique]]

\* faulty variant: only an email counts as a contact
ContactEmailSeul(prospect) == Truthy(prospect.email)

\* faulty variant: the validation of lines 616-621 lets everything through
ContactToujoursValide(prospect) == TRUE

\* lines 616-621: at least an email or a phone
ContactValide(prospect) == Truthy(prospect.email) \/ Truthy(prospect.telephone)

(***************************************************************************)
(* charger_prospects_initiaux (main.py): the candidates a discovery        *)
(* refresh puts on the queue, in order                                     *)
(***************************************************************************)
\* lines 157-172
ConvertirCommerce(commerce) ==
    [nom_entreprise |-> commerce.nom_entreprise,
     site_web |-> commerce.site_web,
     telephone |-> commerce.telephone,
     description |-> "Commerce local - Note: " \o commerce.note_texte,
     source |-> "google_maps_places"]

CommercesRetenus(config, commerces_gmaps) ==
    LET retenus == SelectSeq(commerces_gmaps,
                       LAMBDA c : ~est_entreprise_non_pertinente(
                                       config.pays, c.nom_entreprise, Or(c.site_web, "")))
    IN  [i \in 1..Len(retenus) |-> ConvertirCommerce(retenus[i])]

\* faulty variant: the second filter pass of line 201 is skipped
ANouvelleSansFiltre(config, table, entreprise) ==
    ~prospect_existe(table, Or(entreprise.nom_entreprise, ""), Or(entreprise.site_web, ""))

\* lines 196-207, for one entry of entreprises
ANouvelle(config, table, entreprise) ==
    LET site_web == Or(entreprise.site_web, "")
        nom == Or(entreprise.nom_entreprise, "")
    IN  /\ ~est_entreprise_non_pertinente(config.pays, nom, site_web)
        /\ ~prospect_existe(table, nom, site_web)

NouvellesEntreprises(config, table, commerces_gmaps, entreprises_serper) ==
    LET entreprises ==
            (IF config.google_maps THEN CommercesRetenus(config, commerces_gmaps)
             ELSE <<>>) \o entreprises_serper
    IN  SelectSeq(entreprises, LAMBDA e : ANouvelle(config, table, e))

(***************************************************************************)
(* State                                                                   *)
(***************************************************************************)
VARIABLES
    config,        \* AgentProspection's configuration and which optional clients exist
    adaptateurs,   \* what each external service may answer in this run
    file_attente,  \* self.file_attente
    db,            \* the prospects table
    pc,            \* position in lancer / traiter_prospect
    etat,          \* locals of the traiter_prospect call in progress
    suivi,         \* history: adapters called for the current item, discovery results
    budget,        \* discovery refreshes left to explore
    essai          \* a single call of a pure function: its arguments and its result

vars == <<config, adaptateurs, file_attente, db, pc, etat, suivi, budget, essai>>

\* bounds of the exploration
MaxRafraichissements == 1
MaxLignes == 3

TemplateBase ==
    "Bonjour {nom_dirigeant}, {nom_entreprise}: {point_specifique}. {proposition_valeur}"

ConfigDefaut ==
    [apollo |-> TRUE, google_maps |-> TRUE, zerobounce |-> TRUE,
     pays |-> "Suisse", service_propose |-> "Création de site web",
     message_base |-> TemplateBase, message_commerce |-> TemplateBase,
     message_b2b |-> TemplateBase, message_artisan |-> TemplateBase,
     proposition_valeur |-> "Un site en 7 jours"]

\* the configurations explored: every combination of the optional clients,
\* two offered services, and a configuration that sets no message template
\* (message_base defaults to "" at main.py:108)
Configurations ==
    { [ConfigDefaut EXCEPT !.apollo = a, !.google_maps = g, !.zerobounce = z] :
        a \in BOOLEAN, g \in BOOLEAN, z \in BOOLEAN }
    \cup
    { [ConfigDefaut EXCEPT !.service_propose = "Conseil et audit",
                           !.message_base = "", !.message_commerce = "",
                           !.message_b2b = "", !.message_artisan = ""] }

ApolloComplet ==
    [trouve |-> TRUE, telephone |-> "+41225550001",
     linkedin_entreprise |-> "https://linkedin.com/company/apollo",
     site_web |-> "https://apollo.example.ch", taille |-> "11-50",
     industrie |-> "Restaurant", revenue |-> "1M"]

ApolloSansContact ==
    [ApolloAbsent EXCEPT !.trouve = TRUE, !.industrie = "Finance", !.taille = "25"]

GoogleMapsComplet ==
    [trouve |-> TRUE, telephone |-> "+41225550002",
     site_web |-> "https://gmaps.example.ch", adresse |-> "Rue du Lac 1, Genève",
     note |-> 45, nb_avis |-> 50]

GoogleMapsSansContact ==
    [GoogleMapsAbsent EXCEPT !.trouve = TRUE, !.note = 38]

\* answers of the services explored for a single item
AdaptateursRiches ==
    [apollo |-> {ApolloAbsent, ApolloComplet, ApolloSansContact},
     hunter |-> {None, "contact@garage-dupont.ch"},
     google_maps |-> {GoogleMapsAbsent, GoogleMapsComplet, GoogleMapsSansContact},
     zerobounce |-> {[genre |-> "erreur", status |-> Absent]} \cup
                    {[genre |-> "json", status |-> st] :
                        st \in {"valid", "invalid", "catch-all", "spam", None}},
     technologies |-> {[genre |-> "erreur", technologies |-> <<>>],
                       [genre |-> "liste", technologies |-> <<>>],
                       [genre |-> "liste", technologies |-> <<"WordPress", "nginx">>]},
     linkedin |-> {None, "https://linkedin.com/company/serper"},
     analyse |-> {[genre |-> "erreur", raison_choix |-> Absent,
                   proposition_service |-> Absent],
                  [genre |-> "json", raison_choix |-> "Site vieillissant",
                   proposition_service |-> "Refonte du site"]},
     message |-> {[genre |-> "erreur", message_personnalise |-> Absent,
                   point_specifique |-> Absent],
                  [genre |-> "illisible", message_personnalise |-> Absent,
                   point_specifique |-> Absent],
                  [genre |-> "json", message_personnalise |-> "Bonjour, bravo pour vos avis.",
                   point_specifique |-> "vos avis"],
                  [genre |-> "json", message_personnalise |-> "", point_specifique |-> ""],
                  [genre |-> "json", message_personnalise |-> Absent,
                   point_specifique |-> Absent]},
     decouverte_gmaps |-> {<<>>},
     decouverte_serper |-> {<<>>}]

CommerceDupont ==
    [nom_entreprise |-> "Garage Dupont", site_web |-> None,
     telephone |-> "+41221234567", note_texte |-> "4.5"]

CommerceMcDonald ==
    [nom_entreprise |-> "McDonald's Genève", site_web |-> "https://www.mcdonalds.ch",
     telephone |-> "+41220000000", note_texte |-> "3.9"]

\* the same company as SerperMartin, as Google Maps lists it
CommerceMartin ==
    [nom_entreprise |-> "Fiduciaire Martin", site_web |-> "https://www.fiduciaire-martin.ch",
     telephone |-> "+41225550001", note_texte |-> "4.5"]

SerperMartin ==
    [nom_entreprise |-> "Fiduciaire Martin", site_web |-> "https://www.fiduciaire-martin.ch",
     telephone |-> None, description |-> "Cabinet fiduciaire", source |-> "serper_organic"]

SerperTremblay ==
    [nom_entreprise |-> "Plomberie Tremblay", site_web |-> "https://www.tremblay.qc.ca",
     telephone |-> None, description |-> "Plombier", source |-> "serper_organic"]

SerperDupont ==
    [nom_entreprise |-> "Garage Dupont", site_web |-> "",
     telephone |-> None, description |-> "Garage", source |-> "serper_organic"]

\* answers of the services explored when the whole loop runs
AdaptateursSimples ==
    [AdaptateursRiches EXCEPT
       !.apollo = {ApolloAbsent, ApolloComplet},
       !.google_maps = {GoogleMapsAbsent},
       !.zerobounce = {[genre |-> "json", status |-> "valid"]},
       !.technologies = {[genre |-> "liste", technologies |-> <<>>]},
       !.linkedin = {None},
       !.analyse = {[genre |-> "json", raison_choix |-> "Site vieillissant",
                     proposition_service |-> "Refonte du site"]},
       !.message = {[genre |-> "json", message_personnalise |-> "Bonjour, bravo pour vos avis.",
                     point_specifique |-> "vos avis"]},
       !.decouverte_gmaps = {<<>>, <<CommerceDupont>>, <<CommerceMcDonald, CommerceDupont>>},
       !.decouverte_serper = {<<>>, <<SerperMartin>>, <<SerperTremblay, SerperMartin>>,
                              <<SerperDupont>>}]

SuiviVide ==
    [appels |-> {}, ajout |-> FALSE, issue |-> "aucune", decouverts |-> {},
     entreprise |-> <<"", "">>, telephone |-> None,
     pause |-> FALSE, interrompu |-> FALSE]

EssaiAucun == [op |-> "aucun"]

\* the candidates a single-item run starts from
CandidatsTraiter ==
    { [nom_entreprise |-> "Garage Dupont", site_web |-> sw, telephone |-> tel,
       description |-> "Garage", source |-> "serper_organic"] :
        sw \in {None, "", "https://www.garage-dupont.ch"},
        tel \in {None, "+41221234567"} }

(***************************************************************************)
(* Actions of traiter_prospect                                             *)
(***************************************************************************)
\* the positions inside the processing of one item
EtapesTraiter ==
    {"apollo", "hunter", "google_maps", "zerobounce", "technologies", "linkedin",
     "score", "analyse", "message", "validation", "retour"}

Appele(nom) == suivi' = [suivi EXCEPT !.appels = @ \cup {nom}]

\* faulty variant: the worker takes the most recent candidate of the queue
DefilerDernier ==
    /\ pc \in {"boucle", "defiler"}
    /\ file_attente /= <<>>
    /\ etat' = EtatInitial(file_attente[Len(file_attente)])
    /\ file_attente' = SubSeq(file_attente, 1, Len(file_attente) - 1)
    /\ suivi' = [suivi EXCEPT !.appels = {}, !.ajout = FALSE, !.issue = "aucune",
                              !.entreprise =
                                  <<Or(file_attente[Len(file_attente)].nom_entreprise, ""),
                                    Or(file_attente[Len(file_attente)].site_web, "")>>,
                              !.telephone = file_attente[Len(file_attente)].telephone,
                              !.pause = FALSE]
    /\ pc' = "apollo"
    /\ UNCHANGED <<config, adaptateurs, db, budget, essai>>

\* lancer 855-863 and traiter_prospect 413-427
Defiler ==
    /\ pc \in {"boucle", "defiler"}
    /\ file_attente /= <<>>
    /\ etat' = EtatInitial(Head(file_attente))
    /\ file_attente' = Tail(file_attente)
    /\ suivi' = [suivi EXCEPT !.appels = {}, !.ajout = FALSE, !.issue = "aucune",
                              !.entreprise = <<Or(Head(file_attente).nom_entreprise, ""),
                                               Or(Head(file_attente).site_web, "")>>,
                              !.telephone = Head(file_attente).telephone,
                              !.pause = FALSE]
    /\ pc' = "apollo"
    /\ UNCHANGED <<config, adaptateurs, db, budget, essai>>

Apollo ==
    /\ pc = "apollo"
    /\ \/ /\ AppelApollo(config, etat)
          /\ \E entreprise_apollo \in adaptateurs.apollo :
                 etat' = FusionApollo(etat, entreprise_apollo)
          /\ Appele("apollo")
       \/ /\ ~AppelApollo(config, etat)
          /\ UNCHANGED <<etat, suivi>>
    /\ pc' = "hunter"
    /\ UNCHANGED <<config, adaptateurs, file_attente, db, budget, essai>>

Hunter ==
    /\ pc = "hunter"
    /\ \/ /\ AppelHunter(etat)
          /\ \E email_hunter \in adaptateurs.hunter :
                 etat' = FusionHunter(etat, email_hunter)
          /\ Appele("hunter")
       \/ /\ ~AppelHunter(etat)
          /\ UNCHANGED <<etat, suivi>>
    /\ pc' = "google_maps"
    /\ UNCHANGED <<config, adaptateurs, file_attente, db, budget, essai>>

\* 1.3 and the assignment of lines 484-485
GoogleMaps ==
    /\ pc = "google_maps"
    /\ \/ /\ AppelGoogleMaps(config, etat)
          /\ \E entreprise_gmaps \in adaptateurs.google_maps :
                 etat' = AssignerResultats(FusionGoogleMaps(etat, entreprise_gmaps))
          /\ Appele("google_maps")
       \/ /\ ~AppelGoogleMaps(config, etat)
          /\ etat' = AssignerResultats(etat)
          /\ UNCHANGED suivi
    /\ pc' = "zerobounce"
    /\ UNCHANGED <<config, adaptateurs, file_attente, db, budget, essai>>

\* 1.5 and the company data of lines 529-535
ZeroBounce ==
    /\ pc = "zerobounce"
    /\ \/ /\ AppelZeroBounce(config, etat)
          /\ \E api \in adaptateurs.zerobounce :
                 etat' = EnrichirDonnees(FusionZeroBounce(etat, verifier_email(api)))
          /\ Appele("zerobounce")
       \/ /\ ~AppelZeroBounce(config, etat)
          /\ etat' = EnrichirDonnees(etat)
          /\ UNCHANGED suivi
    /\ pc' = "technologies"
    /\ UNCHANGED <<config, adaptateurs, file_attente, db, budget, essai>>

\* faulty variant: a failed technology detection aborts the item
TechnologiesFatale ==
    /\ pc = "technologies"
    /\ \/ /\ AppelTechnologies(etat)
          /\ \E detection \in adaptateurs.technologies :
                 /\ etat' = FusionTechnologies(etat, detection)
                 /\ pc' = IF detection.genre = "erreur" THEN "attente_erreur" ELSE "linkedin"
          /\ Appele("technologies")
       \/ /\ ~AppelTechnologies(etat)
          /\ pc' = "linkedin"
          /\ UNCHANGED <<etat, suivi>>
    /\ UNCHANGED <<config, adaptateurs, file_attente, db, budget, essai>>

Technologies ==
    /\ pc = "technologies"
    /\ \/ /\ AppelTechnologies(etat)
          /\ \E detection \in adaptateurs.technologies :
                 etat' = FusionTechnologies(etat, detection)
          /\ Appele("technologies")
       \/ /\ ~AppelTechnologies(etat)
          /\ UNCHANGED <<etat, suivi>>
    /\ pc' = "linkedin"
    /\ UNCHANGED <<config, adaptateurs, file_attente, db, budget, essai>>

\* faulty variant: the score is computed before the LinkedIn lookup, whose
\* result it then misses
LinkedinApresScore ==
    /\ pc = "linkedin"
    /\ \/ /\ AppelLinkedin(etat)
          /\ \E linkedin_entreprise \in adaptateurs.linkedin :
                 etat' = FusionLinkedin(FusionScore(config, etat), linkedin_entreprise)
          /\ Appele("linkedin")
       \/ /\ ~AppelLinkedin(etat)
          /\ etat' = FusionScore(config, etat)
          /\ UNCHANGED suivi
    /\ pc' = "analyse"
    /\ UNCHANGED <<config, adaptateurs, file_attente, db, budget, essai>>

Linkedin ==
    /\ pc = "linkedin"
    /\ \/ /\ AppelLinkedin(etat)
          /\ \E linkedin_entreprise \in adaptateurs.linkedin :
                 etat' = FusionLinkedin(etat, linkedin_entreprise)
          /\ Appele("linkedin")
       \/ /\ ~AppelLinkedin(etat)
          /\ UNCHANGED <<etat, suivi>>
    /\ pc' = "score"
    /\ UNCHANGED <<config, adaptateurs, file_attente, db, budget, essai>>

Score ==
    /\ pc = "score"
    /\ etat' = FusionScore(config, etat)
    /\ pc' = "analyse"
    /\ UNCHANGED <<config, adaptateurs, file_attente, db, suivi, budget, essai>>

Analyse ==
    /\ pc = "analyse"
    /\ \E reponse \in adaptateurs.analyse : etat' = FusionAnalyse(config, etat, reponse)
    /\ Appele("analyse")
    /\ pc' = "message"
    /\ UNCHANGED <<config, adaptateurs, file_attente, db, budget, essai>>

Message ==
    /\ pc = "message"
    /\ \E reponse \in adaptateurs.message : etat' = FusionMessage(config, etat, reponse)
    /\ Appele("message")
    /\ pc' = "validation"
    /\ UNCHANGED <<config, adaptateurs, file_attente, db, budget, essai>>

\* lines 616-631
Sauvegarde ==
    /\ pc = "validation"
    /\ \/ /\ ContactValide(etat.prospect_complet)
          /\ Len(db) < MaxLignes
          /\ db' = ajouter_prospect(db, etat.prospect_complet)
          /\ suivi' = [suivi EXCEPT !.ajout = TRUE, !.issue = "retourne",
                                    !.appels = @ \cup {"ajouter_prospect"}]
       \/ /\ ~ContactValide(etat.prospect_complet)
          /\ suivi' = [suivi EXCEPT !.issue = "ignore"]
          /\ UNCHANGED db
    /\ pc' = "retour"
    /\ UNCHANGED <<config, adaptateurs, file_attente, etat, budget, essai>>

(***************************************************************************)
(* Actions of lancer                                                       *)
(***************************************************************************)
Range(seq) == {seq[i] : i \in 1..Len(seq)}

\* what the two discovery services returned, as (name, site) pairs
Decouverts(commerces_gmaps, entreprises_serper) ==
    {<<Or(e.nom_entreprise, ""), Or(e.site_web, "")>> :
        e \in (IF config.google_maps THEN Range(commerces_gmaps) ELSE {})
              \cup Range(entreprises_serper)}

\* charger_prospects_initiaux; a discovery service that raises leaves the
\* same result as one that returns no candidate (lines 152-154, 190-192)
Charger(commerces_gmaps, entreprises_serper) ==
    /\ file_attente' = file_attente \o
           NouvellesEntreprises(config, db, commerces_gmaps, entreprises_serper)
    /\ suivi' = [suivi EXCEPT !.decouverts =
                     @ \cup Decouverts(commerces_gmaps, entreprises_serper)]

\* lancer 817-827
Demarrer ==
    /\ pc = "lancer"
    /\ \E commerces_gmaps \in adaptateurs.decouverte_gmaps,
          entreprises_serper \in adaptateurs.decouverte_serper :
           Charger(commerces_gmaps, entreprises_serper)
    /\ pc' = IF file_attente' = <<>> THEN "arrete" ELSE "boucle"
    /\ UNCHANGED <<config, adaptateurs, db, etat, budget, essai>>

\* lancer 840-853
Rafraichir ==
    /\ pc = "boucle"
    /\ file_attente = <<>>
    /\ budget > 0
    /\ budget' = budget - 1
    /\ \E commerces_gmaps \in adaptateurs.decouverte_gmaps,
          entreprises_serper \in adaptateurs.decouverte_serper :
           Charger(commerces_gmaps, entreprises_serper)
    /\ pc' = IF file_attente' = <<>> THEN "attente_60" ELSE "defiler"
    /\ UNCHANGED <<config, adaptateurs, db, etat, essai>>

\* time.sleep(60) then continue, lines 848-849
FinAttente ==
    /\ pc = "attente_60"
    /\ pc' = "boucle"
    /\ UNCHANGED <<config, adaptateurs, file_attente, db, etat, suivi, budget, essai>>

\* lines 866-870: traiter_prospect returned None
Ignorer ==
    /\ pc = "retour"
    /\ suivi.issue = "ignore"
    /\ pc' = "boucle"
    /\ UNCHANGED <<config, adaptateurs, file_attente, db, etat, suivi, budget, essai>>

\* lines 873-885: summary, statistics, then the pause between two items
Afficher ==
    /\ pc = "retour"
    /\ suivi.issue = "retourne"
    /\ pc' = "attente_intervalle"
    /\ UNCHANGED <<config, adaptateurs, file_attente, db, etat, suivi, budget, essai>>

\* faulty variant: lancer ends after the pause that follows a stored item
ReprendreSansRetour ==
    /\ pc = "attente_intervalle"
    /\ pc' = "arrete"
    /\ suivi' = [suivi EXCEPT !.pause = TRUE]
    /\ UNCHANGED <<config, adaptateurs, file_attente, db, etat, budget, essai>>

Reprendre ==
    /\ pc = "attente_intervalle"
    /\ pc' = "boucle"
    /\ suivi' = [suivi EXCEPT !.pause = TRUE]
    /\ UNCHANGED <<config, adaptateurs, file_attente, db, etat, budget, essai>>

\* faulty variant: an exception in the processing of an item ends lancer
EchecFatal ==
    /\ pc \in EtapesTraiter
    /\ pc' = "arrete"
    /\ etat' = EtatInitial(SerperMartin)
    /\ suivi' = [suivi EXCEPT !.appels = {}, !.ajout = FALSE, !.issue = "echec"]
    /\ UNCHANGED <<config, adaptateurs, file_attente, db, budget, essai>>

\* lines 890-893: an exception that escapes the processing of an item (a log
\* or display call that raises; the adapters catch their own errors) reaches
\* the handler of the loop.  The locals of the interrupted call are gone.
Echec ==
    /\ pc \in EtapesTraiter
    /\ pc' = "attente_erreur"
    /\ etat' = EtatInitial(SerperMartin)
    /\ suivi' = [suivi EXCEPT !.appels = {}, !.ajout = FALSE, !.issue = "echec"]
    /\ UNCHANGED <<config, adaptateurs, file_attente, db, budget, essai>>

\* lines 840-842 and 890-893: the refresh inside the loop raises before it
\* enqueues anything
EchecRafraichir ==
    /\ pc = "boucle"
    /\ file_attente = <<>>
    /\ budget > 0
    /\ budget' = budget - 1
    /\ pc' = "attente_erreur"
    /\ UNCHANGED <<config, adaptateurs, file_attente, db, etat, suivi, essai>>

\* time.sleep(self.intervalle_traitement) of line 893, then the next iteration
ReprendreApresErreur ==
    /\ pc = "attente_erreur"
    /\ pc' = "boucle"
    /\ suivi' = [suivi EXCEPT !.pause = TRUE]
    /\ UNCHANGED <<config, adaptateurs, file_attente, db, etat, budget, essai>>

PositionsLancer ==
    {"lancer", "boucle", "defiler", "attente_60", "attente_intervalle", "attente_erreur"}
        \cup EtapesTraiter

\* lines 887-889: KeyboardInterrupt reaches lancer, which leaves the loop (an
\* interrupt during the start-up refresh or during the sleep of the
\* exception handler propagates out of lancer)
Interrompre ==
    /\ pc \in PositionsLancer
    /\ pc' = "arrete"
    /\ suivi' = [suivi EXCEPT !.interrompu = TRUE]
    /\ UNCHANGED <<config, adaptateurs, file_attente, db, etat, budget, essai>>

\* hunter_client.py 236-246: KeyboardInterrupt raised inside the page loop of
\* the website scraping is caught by the bare `except:` and the scraping goes
\* on with the next page
InterruptionAvalee ==
    /\ pc = "hunter"
    /\ AppelHunter(etat)
    /\ ~suivi.interrompu
    /\ suivi' = [suivi EXCEPT !.interrompu = TRUE]
    /\ UNCHANGED <<config, adaptateurs, file_attente, db, pc, etat, budget, essai>>

(***************************************************************************)
(* The agent: AgentProspection.lancer, from construction on                *)
(***************************************************************************)
ConfigurationsAgent ==
    {ConfigDefaut, [ConfigDefaut EXCEPT !.google_maps = FALSE, !.pays = ""]}

Init ==
    /\ config \in ConfigurationsAgent
    /\ adaptateurs = AdaptateursSimples
    /\ file_attente = <<>>
    /\ db = <<>>
    /\ pc = "lancer"
    /\ etat = EtatInitial(SerperMartin)
    /\ suivi = SuiviVide
    /\ budget = MaxRafraichissements
    /\ essai = EssaiAucun

Next ==
    \/ Demarrer
    \/ Rafraichir
    \/ FinAttente
    \/ Defiler
    \/ Apollo
    \/ Hunter
    \/ GoogleMaps
    \/ ZeroBounce
    \/ Technologies
    \/ Linkedin
    \/ Score
    \/ Analyse
    \/ Message
    \/ Sauvegarde
    \/ Ignorer
    \/ Afficher
    \/ Reprendre
    \/ Echec
    \/ EchecRafraichir
    \/ ReprendreApresErreur
    \/ Interrompre
    \/ InterruptionAvalee

Spec == Init /\ [][Next]_vars

(***************************************************************************)
(* The agent left to run: no interrupt is delivered, every call returns    *)
(* and every sleep ends, so a step of the loop that can be taken is taken  *)
(***************************************************************************)
NextSansInterruption ==
    \/ Demarrer
    \/ Rafraichir
    \/ FinAttente
    \/ Defiler
    \/ Apollo
    \/ Hunter
    \/ GoogleMaps
    \/ ZeroBounce
    \/ Technologies
    \/ Linkedin
    \/ Score
    \/ Analyse
    \/ Message
    \/ Sauvegarde
    \/ Ignorer
    \/ Afficher
    \/ Reprendre
    \/ Echec
    \/ EchecRafraichir
    \/ ReprendreApresErreur

\* two companies, one listed by each discovery service
AdaptateursEquitable ==
    [AdaptateursSimples EXCEPT
       !.decouverte_gmaps = {<<CommerceDupont>>},
       !.decouverte_serper = {<<>>, <<SerperMartin>>}]

InitEquitable ==
    /\ config = ConfigDefaut
    /\ adaptateurs = AdaptateursEquitable
    /\ file_attente = <<>>
    /\ db = <<>>
    /\ pc = "lancer"
    /\ etat = EtatInitial(SerperMartin)
    /\ suivi = SuiviVide
    /\ budget = MaxRafraichissements
    /\ essai = EssaiAucun

\* every call of the loop and of traiter_prospect returns and every sleep
\* ends; failures (Echec, EchecRafraichir) may happen but need not.  Score
\* and Message are enabled exactly when pc is at their position and always
\* leave it, so weak fairness of each is that pc is infinitely often
\* elsewhere.
Equite ==
    /\ WF_vars(Demarrer) /\ WF_vars(FinAttente) /\ WF_vars(Defiler)
    /\ WF_vars(Apollo) /\ WF_vars(Hunter) /\ WF_vars(GoogleMaps)
    /\ WF_vars(ZeroBounce) /\ WF_vars(Technologies) /\ WF_vars(Linkedin)
    /\ []<>(pc /= "score") /\ WF_vars(Analyse) /\ []<>(pc /= "message")
    /\ WF_vars(Sauvegarde) /\ WF_vars(Ignorer) /\ WF_vars(Afficher)
    /\ WF_vars(Reprendre) /\ WF_vars(ReprendreApresErreur)

SpecEquitable == InitEquitable /\ [][NextSansInterruption]_vars /\ Equite

(***************************************************************************)
(* The agent when both discovery services list the same company: the two   *)
(* candidates of one batch carry the same (name, website) pair             *)
(***************************************************************************)
AdaptateursDoublon ==
    [AdaptateursSimples EXCEPT
       !.decouverte_gmaps = {<<CommerceMartin>>},
       !.decouverte_serper = {<<>>, <<SerperMartin>>}]

InitDoublon ==
    /\ config = ConfigDefaut
    /\ adaptateurs = AdaptateursDoublon
    /\ file_attente = <<>>
    /\ db = <<>>
    /\ pc = "lancer"
    /\ etat = EtatInitial(SerperMartin)
    /\ suivi = SuiviVide
    /\ budget = MaxRafraichissements
    /\ essai = EssaiAucun

SpecDoublon == InitDoublon /\ [][Next]_vars

(***************************************************************************)
(* One item through traiter_prospect, every service answering every way    *)
(***************************************************************************)
InitTraiter ==
    /\ config \in Configurations
    /\ adaptateurs = AdaptateursRiches
    /\ \E entreprise \in CandidatsTraiter : file_attente = <<entreprise>>
    /\ db = <<>>
    /\ pc = "boucle"
    /\ etat = EtatInitial(SerperMartin)
    /\ suivi = SuiviVide
    /\ budget = 0
    /\ essai = EssaiAucun

NextTraiter ==
    \/ Defiler
    \/ Apollo
    \/ Hunter
    \/ GoogleMaps
    \/ ZeroBounce
    \/ Technologies
    \/ Linkedin
    \/ Score
    \/ Analyse
    \/ Message
    \/ Sauvegarde

SpecTraiter == InitTraiter /\ [][NextTraiter]_vars

(***************************************************************************)
(* _est_entreprise_non_pertinente on its own: one call per behaviour       *)
(***************************************************************************)
PaysEssai == {"Suisse", "France", "Canada", "Québec", ""}

NomsEssai ==
    {"Garage Dupont", "Plomberie Tremblay", "Plomberie Montréal Canada",
     "McDonald's Genève", "Agence Immobilière du Léman", "Fiduciaire de France"}

SitesEssai ==
    {"", "https://www.tremblay.qc.ca", "https://www.garage-dupont.ch",
     "https://www.exemple.fr", "https://www.exemple.com",
     "https://www.exemple.com/restaurant-paris"}

InitFiltre ==
    /\ config = ConfigDefaut
    /\ adaptateurs = AdaptateursSimples
    /\ file_attente = <<>>
    /\ db = <<>>
    /\ pc = "filtre"
    /\ etat = EtatInitial(SerperMartin)
    /\ suivi = SuiviVide
    /\ budget = 0
    /\ essai \in [op : {"est_entreprise_non_pertinente"}, pays : PaysEssai,
                  nom : NomsEssai, site_web : SitesEssai,
                  fait : {FALSE}, resultat : {FALSE}]

AppelFiltre ==
    /\ pc = "filtre"
    /\ ~essai.fait
    /\ essai' = [essai EXCEPT
                   !.fait = TRUE,
                   !.resultat = est_entreprise_non_pertinente(
                                    essai.pays, essai.nom, essai.site_web)]
    /\ UNCHANGED <<config, adaptateurs, file_attente, db, pc, etat, suivi, budget>>

NextFiltre == AppelFiltre

SpecFiltre == InitFiltre /\ [][NextFiltre]_vars

(***************************************************************************)
(* _pays_correspond on its own: one call per behaviour, on every targeted  *)
(* country spelling and every detected code                                *)
(***************************************************************************)
CiblesEssai ==
    {"Canada", "canada", " CA ", "Québec", "quebec", "Montréal", "qc",
     "Suisse", "Schweiz", "France", "Belgique", "Luxembourg", "Italie", ""}

CodesEssai == {"ca", "qc", "ch", "fr", "be", "lu", "italie"}

InitPays ==
    /\ config = ConfigDefaut
    /\ adaptateurs = AdaptateursSimples
    /\ file_attente = <<>>
    /\ db = <<>>
    /\ pc = "pays"
    /\ etat = EtatInitial(SerperMartin)
    /\ suivi = SuiviVide
    /\ budget = 0
    /\ essai \in {[op |-> "pays_correspond", pays_cible |-> cible,
                    pays_resultat |-> code, fait |-> FALSE, resultat |-> FALSE] :
                       cible \in CiblesEssai, code \in CodesEssai}

AppelPays ==
    /\ pc = "pays"
    /\ ~essai.fait
    /\ essai' = [essai EXCEPT !.fait = TRUE,
                              !.resultat = pays_correspond(essai.pays_cible,
                                                           essai.pays_resultat)]
    /\ UNCHANGED <<config, adaptateurs, file_attente, db, pc, etat, suivi, budget>>

NextPays == AppelPays

SpecPays == InitPays /\ [][NextPays]_vars

(***************************************************************************)
(* The scoring stage on its own: any prospect record, any service          *)
(***************************************************************************)
ServicesEssai ==
    {"Création de site web", "Marketing digital", "Conseil et audit",
     "Boutique en ligne", "Formation"}

ProspectsEssai ==
    { [ProspectVide EXCEPT
         !.nom_entreprise = "Garage Dupont",
         !.email = em[1], !.email_status = em[2],
         !.telephone = tel, !.linkedin_entreprise = li, !.site_web = sw,
         !.technologies = tech, !.note_google = note, !.nb_avis = avis,
         !.taille_entreprise = taille, !.industrie = ind] :
        em \in {<<None, None>>, <<"contact@garage-dupont.ch", "valid">>,
                <<"contact@garage-dupont.ch", "catch-all">>,
                <<"contact@garage-dupont.ch", None>>},
        tel \in {None, "+41221234567"},
        li \in {None, "https://linkedin.com/company/apollo"},
        sw \in {None, "https://www.garage-dupont.ch"},
        tech \in {"", "WordPress, nginx", "React"},
        note \in {NoneNum, 38, 45},
        avis \in {NoneNum, 5, 50},
        taille \in {None, "11-50"},
        ind \in {None, "Restaurant"} }

InitScore ==
    /\ config \in {[ConfigDefaut EXCEPT !.service_propose = s] : s \in ServicesEssai}
    /\ adaptateurs = AdaptateursRiches
    /\ file_attente = <<>>
    /\ db = <<>>
    /\ pc = "score"
    /\ \E prospect \in ProspectsEssai :
           etat = [EtatInitial(SerperMartin) EXCEPT !.prospect_complet = prospect]
    /\ suivi = SuiviVide
    /\ budget = 0
    /\ essai = EssaiAucun

NextScore == Score

SpecScore == InitScore /\ [][NextScore]_vars

(***************************************************************************)
(* calculer_score called on records traiter_prospect does not build: the   *)
(* key industrie may be missing (Absent), or present with the value None.  *)
(* prospect.get("industrie", "") falls back to "" only for a missing key;  *)
(* on None the .lower() of line 233 raises AttributeError, which nothing   *)
(* in calculer_score catches.                                              *)
(***************************************************************************)
calculer_score_brut(service_propose, prospect) ==
    IF prospect.industrie = None
    THEN [exception |-> TRUE, score |-> NoneNum]
    ELSE [exception |-> FALSE,
          score |-> calculer_score(service_propose,
                        [prospect EXCEPT !.industrie = IF @ = Absent THEN None ELSE @])]

ProspectsBruts ==
    { [prospect EXCEPT !.industrie = ind] :
        prospect \in {p \in ProspectsEssai :
                          /\ p.note_google \in {NoneNum, 45}
                          /\ p.nb_avis = NoneNum
                          /\ p.taille_entreprise = None
                          /\ p.technologies = ""},
        ind \in {Absent, None, "Restaurant"} }

InitScoreBrut ==
    /\ config \in {[ConfigDefaut EXCEPT !.service_propose = s] : s \in ServicesEssai}
    /\ adaptateurs = AdaptateursRiches
    /\ file_attente = <<>>
    /\ db = <<>>
    /\ pc = "score_brut"
    /\ etat = EtatInitial(SerperMartin)
    /\ suivi = SuiviVide
    /\ budget = 0
    /\ essai \in {[op |-> "calculer_score", prospect |-> prospect, fait |-> FALSE,
                    exception |-> FALSE, score |-> NoneNum] :
                       prospect \in ProspectsBruts}

\* the call of main.py 561-568: the score returned, or 0 when the call raised
AppelScoreBrut ==
    /\ pc = "score_brut"
    /\ ~essai.fait
    /\ LET resultat == calculer_score_brut(config.service_propose, essai.prospect)
       IN  essai' = [essai EXCEPT !.fait = TRUE,
                                  !.exception = resultat.exception,
                                  !.score = IF resultat.exception THEN 0
                                            ELSE resultat.score]
    /\ UNCHANGED <<config, adaptateurs, file_attente, db, pc, etat, suivi, budget>>

NextScoreBrut == AppelScoreBrut

SpecScoreBrut == InitScoreBrut /\ [][NextScoreBrut]_vars

(***************************************************************************)
(* The store on its own: any sequence of ajouter_prospect calls            *)
(***************************************************************************)
DonneesEssai ==
    { [ProspectVide EXCEPT !.nom_entreprise = nom, !.site_web = sw,
                           !.telephone = tel] :
        nom \in {"Garage Dupont", "Fiduciaire Martin"},
        sw \in {None, "", "https://www.garage-dupont.ch"},
        tel \in {"+41221234567", "+41225550001"} }

InitDb ==
    /\ config = ConfigDefaut
    /\ adaptateurs = AdaptateursSimples
    /\ file_attente = <<>>
    /\ db = <<>>
    /\ pc = "db"
    /\ etat = EtatInitial(SerperMartin)
    /\ suivi = SuiviVide
    /\ budget = 0
    /\ essai = EssaiAucun

AjouterProspect ==
    /\ pc = "db"
    /\ Len(db) < MaxLignes
    /\ \E prospect_data \in DonneesEssai :
           /\ db' = ajouter_prospect(db, prospect_data)
           /\ essai' = [op |-> "ajouter_prospect",
                        nom_entreprise |-> prospect_data.nom_entreprise,
                        site_web |-> prospect_data.site_web,
                        lignes_avant |-> Len(db)]
    /\ UNCHANGED <<config, adaptateurs, file_attente, pc, etat, suivi, budget>>

NextDb == AjouterProspect

SpecDb == InitDb /\ [][NextDb]_vars

(***************************************************************************)
(* The store and its existence check: prospect_existe called on every      *)
(* table ajouter_prospect can build                                        *)
(***************************************************************************)
SitesExistence ==
    {None, "", "https://www.garage-dupont.ch", "https://www.fiduciaire-martin.ch"}

VerifierExistence ==
    /\ pc = "db"
    /\ \E nom_entreprise \in {"Garage Dupont", "Fiduciaire Martin"},
          site_web \in SitesExistence :
           essai' = [op |-> "prospect_existe",
                     nom_entreprise |-> nom_entreprise,
                     site_web |-> site_web,
                     lignes_avant |-> Len(db),
                     resultat |-> prospect_existe(db, nom_entreprise, site_web)]
    /\ UNCHANGED <<config, adaptateurs, file_attente, db, pc, etat, suivi, budget>>

NextExiste == AjouterProspect \/ VerifierExistence

SpecExiste == InitDb /\ [][NextExiste]_vars

(***************************************************************************)
(* The store under both threads of start_agent.py: the worker's            *)
(* ajouter_prospect calls interleaved with the requests served by the web  *)
(* interface thread.  SQLite serialises the statements, so each is atomic. *)
(***************************************************************************)
\* data.get('statut') of the request body: a status of the edit form
StatutsWeb == {"contacté"}

MettreAJourProspect ==
    /\ pc = "db"
    /\ \E prospect_id \in 1..MaxLignes, statut \in StatutsWeb :
           db' = update_prospect(db, prospect_id, statut)
    /\ UNCHANGED <<config, adaptateurs, file_attente, pc, etat, suivi, budget, essai>>

NextWeb == AjouterProspect \/ MettreAJourProspect

SpecWeb == InitDb /\ [][NextWeb]_vars

(***************************************************************************)
(* The category of a score: one call of obtenir_categorie_score on each    *)
(* score calculer_score can return                                         *)
(***************************************************************************)
InitCategorie ==
    /\ config = ConfigDefaut
    /\ adaptateurs = AdaptateursSimples
    /\ file_attente = <<>>
    /\ db = <<>>
    /\ pc = "categorie"
    /\ etat = EtatInitial(SerperMartin)
    /\ suivi = SuiviVide
    /\ budget = 0
    /\ essai \in {[op |-> "obtenir_categorie_score", score |-> score,
                    fait |-> FALSE, resultat |-> ""] : score \in 0..100}

AppelCategorie ==
    /\ pc = "categorie"
    /\ ~essai.fait
    /\ essai' = [essai EXCEPT !.fait = TRUE,
                              !.resultat = obtenir_categorie_score(essai.score)]
    /\ UNCHANGED <<config, adaptateurs, file_attente, db, pc, etat, suivi, budget>>

NextCategorie == AppelCategorie

SpecCategorie == InitCategorie /\ [][NextCategorie]_vars

(***************************************************************************)
(* Properties                                                              *)
(***************************************************************************)
ApresAssignation ==
    {"zerobounce", "technologies", "linkedin", "score", "analyse", "message",
     "validation", "retour"}

ApresVerification ==
    {"technologies", "linkedin", "score", "analyse", "message", "validation", "retour"}

ApresScore == {"analyse", "message", "validation", "retour"}

ApresMessage == {"validation", "retour"}

\* C1: ajouter_prospect is called only for a prospect that has an email or a
\* telephone after the enrichment sequence, so no stored row lacks both.
PersisteSeulementAvecContact ==
    /\ suivi.ajout =>
           \/ Truthy(etat.prospect_complet.email)
           \/ Truthy(etat.prospect_complet.telephone)
    /\ \A i \in 1..Len(db) : Truthy(db[i].email) \/ Truthy(db[i].telephone)

\* a candidate went through every enrichment step, ended with neither email
\* nor telephone, and traiter_prospect returned None without writing
TemoinSansContact ==
    /\ pc = "retour"
    /\ suivi.issue = "ignore"
    /\ {"apollo", "hunter", "google_maps"} \subseteq suivi.appels
    /\ ~Truthy(etat.prospect_complet.email)
    /\ ~Truthy(etat.prospect_complet.telephone)
    /\ ~suivi.ajout
    /\ db = <<>>

\* C2: after any sequence of ajouter_prospect calls the table holds at most
\* one row per (nom_entreprise, site_web) pair, a pair whose site_web is None
\* included.
UneLigneParPaire ==
    \A i, j \in 1..Len(db) :
        (/\ db[i].nom_entreprise = db[j].nom_entreprise
         /\ db[i].site_web = db[j].site_web) => i = j

ChampsTexte ==
    {"telephone", "site_web", "linkedin_entreprise", "adresse_complete",
     "email", "email_status", "taille_entreprise", "industrie", "revenue_estime"}

ChampsNombre == {"note_google", "nb_avis_google"}

\* an enrichment step leaves every field that already holds a value alone
ChampsConserves ==
    pc \in EtapesTraiter =>
        /\ \A champ \in ChampsTexte :
               Truthy(etat.prospect_complet[champ]) =>
                   etat'.prospect_complet[champ] = etat.prospect_complet[champ]
        /\ \A champ \in ChampsNombre :
               TruthyNum(etat.prospect_complet[champ]) =>
                   etat'.prospect_complet[champ] = etat.prospect_complet[champ]

\* C3: once a field of the prospect record holds a non-empty value during
\* traiter_prospect (a value carried from discovery included), no later
\* enrichment step changes it.
AucunChampEcrase == [][ChampsConserves]_vars

\* C4: when Apollo returned a telephone, the prospect's telephone is Apollo's
\* value from the assignment on, and telephone_trouve keeps Apollo's value
\* through the Google Maps step.
TelephoneApolloPrioritaire ==
    (pc \in EtapesTraiter /\ Truthy(etat.donnees_entreprise.telephone)) =>
        /\ etat.telephone_trouve = etat.donnees_entreprise.telephone
        /\ pc \in ApresAssignation =>
               etat.prospect_complet.telephone = etat.donnees_entreprise.telephone

\* Apollo returned a telephone while Google Maps was configured, and the
\* item reached the end of traiter_prospect with Apollo's telephone
TemoinTelephoneApollo ==
    /\ pc = "retour"
    /\ config.google_maps
    /\ "apollo" \in suivi.appels
    /\ Truthy(etat.donnees_entreprise.telephone)
    /\ etat.prospect_complet.telephone = etat.donnees_entreprise.telephone
    /\ suivi.ajout

TriplesDecouverts ==
    {<<c.pays, Or(e.nom_entreprise, ""), Or(e.site_web, "")>> :
        c \in ConfigurationsAgent,
        e \in UNION {Range(l) : l \in AdaptateursSimples.decouverte_gmaps}}
    \cup
    {<<c.pays, Or(e.nom_entreprise, ""), Or(e.site_web, "")>> :
        c \in ConfigurationsAgent,
        e \in UNION {Range(l) : l \in AdaptateursSimples.decouverte_serper}}

TriplesRejetes ==
    {t \in TriplesDecouverts : est_entreprise_non_pertinente(t[1], t[2], t[3])}

\* C6: no candidate the relevance filter rejects is on the work queue or is
\* the item traiter_prospect is working on, whichever service returned it.
FiltresJamaisEnFile ==
    /\ \A i \in 1..Len(file_attente) :
           LET t == <<config.pays, Or(file_attente[i].nom_entreprise, ""),
                      Or(file_attente[i].site_web, "")>>
           IN  t \in TriplesDecouverts /\ t \notin TriplesRejetes
    /\ pc \in EtapesTraiter =>
           LET t == <<config.pays, suivi.entreprise[1], suivi.entreprise[2]>>
           IN  t \in TriplesDecouverts /\ t \notin TriplesRejetes

\* discovery returned a candidate of a blocklisted chain together with
\* others, and an item is being enriched
TemoinChaineEcartee ==
    /\ pc \in EtapesTraiter
    /\ \E d \in suivi.decouverts :
           /\ Contains(Lower(d[1]), "mcdonald")
           /\ est_entreprise_non_pertinente(config.pays, d[1], d[2])
           /\ d /= suivi.entreprise

\* C7: with a target country configured, a candidate whose name or website
\* yields a country code that does not correspond to the target is rejected.
ConflitGeographiqueRejete ==
    (/\ essai.fait
     /\ Truthy(essai.pays)
     /\ Truthy(detecter_pays_entreprise(essai.nom, essai.site_web))
     /\ ~pays_correspond(essai.pays,
                         detecter_pays_entreprise(essai.nom, essai.site_web)))
        => essai.resultat

\* target Suisse, a .qc.ca website, no category exclusion: rejected
TemoinConflitGeographique ==
    /\ essai.fait
    /\ essai.pays = "Suisse"
    /\ Contains(essai.site_web, ".qc.ca")
    /\ ~ExclusionCategorie(essai.nom, essai.site_web)
    /\ essai.resultat

\* C8: when country inference yields nothing, the filter rejects exactly when
\* one of the category exclusions matches.
SansPaysSeulesLesCategories ==
    (essai.fait /\ detecter_pays_entreprise(essai.nom, essai.site_web) = None)
        => (essai.resultat <=> ExclusionCategorie(essai.nom, essai.site_web))

\* a target is configured, no country could be inferred, and the candidate
\* is accepted
TemoinSansPaysAccepte ==
    /\ essai.fait
    /\ Truthy(essai.pays)
    /\ detecter_pays_entreprise(essai.nom, essai.site_web) = None
    /\ ~essai.resultat

\* C9: after the message stage, message_personnalise and point_specifique are
\* both non-empty, whatever the generation call produced and whatever
\* template the configuration provides.
MessageJamaisVide ==
    pc \in ApresMessage =>
        /\ Truthy(etat.prospect_complet.message_personnalise)
        /\ Truthy(etat.prospect_complet.point_specifique)

StatutsClaim == {"valid", "invalid", "catch-all", "unknown", None}

\* C10 as stated: email_status is one of valid, invalid, catch-all, unknown
\* or None, at every point of traiter_prospect and in every stored row.
StatutDansEnumeration ==
    /\ pc \in EtapesTraiter => etat.prospect_complet.email_status \in StatutsClaim
    /\ \A i \in 1..Len(db) : db[i].email_status \in StatutsClaim

\* the status strings the verification service returns in this run
StatutsRetournes ==
    {api.status : api \in {a \in adaptateurs.zerobounce : a.genre = "json"}}
        \ {None, Absent, ""}

\* C10, amended: email_status is None or a non-empty string, namely the
\* status the verification adapter returned, whatever it is, or unknown when
\* the adapter returned none or failed; it is None exactly when verification
\* was not attempted (no email found, or the adapter is not configured).
StatutVerification ==
    /\ pc \in EtapesTraiter =>
           LET statut == etat.prospect_complet.email_status
               tente == "zerobounce" \in suivi.appels
           IN  /\ tente => statut \in StatutsRetournes \cup {"unknown"}
               /\ ~tente => statut = None
               /\ pc \in ApresVerification =>
                      (tente <=> (Truthy(etat.prospect_complet.email) /\ config.zerobounce))
    /\ \A i \in 1..Len(db) :
           /\ db[i].email_status \in StatutsRetournes \cup {"unknown", None}
           /\ db[i].email_status = None =>
                  ~(Truthy(db[i].email) /\ config.zerobounce)

\* a row was stored with a status outside the four of the enumeration
TemoinStatutHorsEnumeration ==
    /\ pc = "retour"
    /\ "zerobounce" \in suivi.appels
    /\ Len(db) = 1
    /\ db[1].email_status = "spam"

\* C11: a candidate that passed the filter, carries a phone and has an empty
\* website, and for which no adapter found an email, is not discarded: it is
\* stored with email None and email_status None.
TelephoneSeulPersiste ==
    (/\ pc = "retour"
     /\ Truthy(suivi.telephone)
     /\ suivi.entreprise[2] = ""
     /\ ~Truthy(etat.email_trouve))
        => /\ suivi.issue = "retourne"
           /\ suivi.ajout
           /\ \E i \in 1..Len(db) :
                  /\ db[i].nom_entreprise = suivi.entreprise[1]
                  /\ Truthy(db[i].telephone)
                  /\ db[i].email = None
                  /\ db[i].email_status = None

\* such a candidate, with the verification adapter configured and the email
\* lookup run on a website Apollo supplied, reached the end and was stored
TemoinTelephoneSeul ==
    /\ pc = "retour"
    /\ config.zerobounce
    /\ suivi.telephone = "+41221234567"
    /\ suivi.entreprise[2] = ""
    /\ "hunter" \in suivi.appels
    /\ ~Truthy(etat.email_trouve)
    /\ Len(db) = 1
    /\ db[1].email = None
    /\ db[1].email_status = None

\* the step dequeues an item and enters traiter_prospect
Defilement == pc \in {"boucle", "defiler"} /\ pc' = "apollo"

PauseRespectee == (Defilement /\ suivi.issue /= "aucune") => suivi.pause

\* C12: once the processing of an item has ended (stored, discarded or
\* failed), the loop sleeps the processing interval before it dequeues the
\* next item.
PauseAvantSuivant == [][PauseRespectee]_vars

RefreshSansResultat ==
    /\ pc = "lancer" \/ (pc = "boucle" /\ budget' = budget - 1)
    /\ file_attente' = <<>>
    /\ suivi'.interrompu = suivi.interrompu
    /\ pc' /= "attente_erreur"

AttenteApresRefreshVide == RefreshSansResultat => pc' = "attente_60"

\* C13: a refresh run on an empty queue that yields no new item, at start-up
\* or inside the loop, is followed by the fixed wait (and then another
\* refresh), never by a stop.
AttenteSiRienTrouve == [][AttenteApresRefreshVide]_vars

SuivantTraiter ==
    [p \in EtapesTraiter \ {"retour"} |->
        CASE p = "apollo" -> "hunter"
          [] p = "hunter" -> "google_maps"
          [] p = "google_maps" -> "zerobounce"
          [] p = "zerobounce" -> "technologies"
          [] p = "technologies" -> "linkedin"
          [] p = "linkedin" -> "score"
          [] p = "score" -> "analyse"
          [] p = "analyse" -> "message"
          [] p = "message" -> "validation"
          [] p = "validation" -> "retour"]

EtapeSuivante ==
    /\ (pc \in EtapesTraiter \ {"retour"} /\ pc' /= pc) => pc' = SuivantTraiter[pc]
    /\ pc' = "retour" =>
           /\ etat'.prospect_complet.score \in 0..100
           /\ etat'.prospect_complet.message_personnalise /= None
           /\ suivi'.issue \in {"retourne", "ignore"}

\* C14: whatever an enrichment or generation adapter answers, failure
\* included, the item goes on to the next step, and reaches the end of
\* traiter_prospect scored, with a message, and stored or discarded.
AucunAdaptateurNAbandonne == [][EtapeSuivante]_vars

\* every called adapter failed or found nothing except the email lookup, the
\* verification failed too, and the item was still scored and stored
TemoinAdaptateursEnEchec ==
    /\ pc = "retour"
    /\ {"apollo", "hunter", "google_maps", "zerobounce", "technologies",
        "linkedin", "analyse", "message"} \subseteq suivi.appels
    /\ ~etat.donnees_entreprise.trouve
    /\ ~Truthy(etat.prospect_complet.telephone)
    /\ etat.prospect_complet.email_status = "unknown"
    /\ etat.prospect_complet.technologies = ""
    /\ ~Truthy(etat.prospect_complet.linkedin_entreprise)
    /\ etat.prospect_complet.raison_choix =
           "PME locale qui pourrait bénéficier de " \o config.service_propose
    /\ etat.prospect_complet.point_specifique = "expertise dans votre domaine"
    /\ suivi.issue = "retourne"
    /\ Len(db) = 1

EchecRattrape ==
    /\ (pc \in EtapesTraiter /\ suivi'.issue = "echec" /\ ~suivi'.interrompu)
           => /\ pc' = "attente_erreur"
              /\ file_attente' = file_attente
              /\ db' = db
    /\ (pc = "attente_erreur" /\ pc' /= pc /\ ~suivi'.interrompu)
           => pc' = "boucle" /\ suivi'.pause

\* C15: an exception raised while an item is processed is caught by the main
\* loop, which sleeps the processing interval and goes on with the queue;
\* lancer stops only on an interrupt or at start-up.
ExceptionNArretePas ==
    [][EchecRattrape /\ (pc' = "arrete" => (suivi'.interrompu \/ pc = "lancer"))]_vars

\* an item failed, the loop slept the interval and is back at the top with
\* the next candidate still queued
TemoinRepriseApresEchec ==
    /\ pc = "boucle"
    /\ suivi.issue = "echec"
    /\ suivi.pause
    /\ ~suivi.interrompu
    /\ file_attente /= <<>>

UnSeulOuvrier ==
    /\ file_attente' /= file_attente =>
           \/ /\ Defilement
              /\ file_attente' = Tail(file_attente)
              /\ suivi'.entreprise = <<Or(Head(file_attente).nom_entreprise, ""),
                                       Or(Head(file_attente).site_web, "")>>
              /\ suivi.issue /= "aucune" \/ suivi.entreprise = <<"", "">>
           \/ /\ pc \in {"lancer", "boucle"}
              /\ Len(file_attente') > Len(file_attente)
              /\ SubSeq(file_attente', 1, Len(file_attente)) = file_attente
    /\ pc \in EtapesTraiter => file_attente' = file_attente

\* C16: candidates leave the queue in the order they entered it, one at a
\* time, and an item is dequeued only when the previous one has reached its
\* outcome; nothing is dequeued while an item is inside traiter_prospect.
FileFifoUnOuvrier == [][UnSeulOuvrier]_vars

\* two candidates were queued, the first was stored, the second is inside
\* traiter_prospect
TemoinDeuxiemeApresPremier ==
    /\ pc \in EtapesTraiter
    /\ suivi.entreprise[1] = "Fiduciaire Martin"
    /\ suivi.issue = "aucune"
    /\ Len(db) = 1
    /\ db[1].nom_entreprise = "Garage Dupont"
    /\ budget = MaxRafraichissements

\* C17: after a KeyboardInterrupt was delivered, wherever in the loop, no
\* item is dequeued and nothing is enqueued any more.
PlusRienApresInterruption == [][suivi.interrompu => file_attente' = file_attente]_vars

\* C18 as stated: the web interface thread never writes to the store; the
\* fields of a stored prospect change only through the worker's
\* ajouter_prospect, which only ever adds rows
LignesIntactes ==
    /\ Len(db') >= Len(db)
    /\ \A i \in 1..Len(db) : db'[i] = db[i]

ColonnesWeb == {"statut", "date_traitement"}

EcritureLimitee ==
    /\ Len(db') >= Len(db)
    /\ \A i \in 1..Len(db) :
           \A colonne \in (DOMAIN db[i]) \ ColonnesWeb :
               db'[i][colonne] = db[i][colonne]
    /\ Len(db') > Len(db) =>
           /\ \A i \in 1..Len(db) : db'[i] = db[i]
           /\ db'[Len(db')].statut = "traite"
           /\ db'[Len(db')].date_traitement = "ajouter_prospect"

PaireDejaStockee ==
    \E i \in 1..Len(db) :
        ConflitUnique(db[i], etat.prospect_complet.nom_entreprise,
                      etat.prospect_complet.site_web)

AppelAjouterProspect ==
    /\ pc = "validation"
    /\ "ajouter_prospect" \in suivi'.appels \ suivi.appels

DoublonSansEffet ==
    /\ AppelAjouterProspect /\ PaireDejaStockee =>
           /\ db' = db
           /\ suivi'.issue = "retourne"
           /\ pc' = "retour"
    /\ pc \in {"validation", "retour"} /\ pc' = "arrete" => suivi'.interrompu

DoublonIgnore == [][DoublonSansEffet]_vars

TemoinDoublonIgnore ==
    /\ pc = "attente_intervalle"
    /\ suivi.issue = "retourne"
    /\ "ajouter_prospect" \in suivi.appels
    /\ Len(db) = 1
    /\ ConflitUnique(db[1], etat.prospect_complet.nom_entreprise,
                     etat.prospect_complet.site_web)
    /\ db[1].telephone = "+41225550001"
    /\ db[1].email = None
    /\ etat.prospect_complet.telephone = None
    /\ Truthy(etat.prospect_complet.email)

\* C20: obtenir_categorie_score gives every score of 0..100 exactly one
\* category: excellent from 80 up, bon for 60..79, moyen for 40..59 and
\* faible below 40
CategorieRendue == pc = "categorie" /\ essai.fait

CategoriesDuScore ==
    CategorieRendue =>
        /\ essai.resultat \in {"excellent", "bon", "moyen", "faible"}
        /\ essai.resultat = "excellent" <=> essai.score \in 80..100
        /\ essai.resultat = "bon" <=> essai.score \in 60..79
        /\ essai.resultat = "moyen" <=> essai.score \in 40..59
        /\ essai.resultat = "faible" <=> essai.score \in 0..39

TemoinSeuilBon ==
    /\ CategorieRendue
    /\ essai.score = 60
    /\ essai.resultat = "bon"

\* C21: traiter_prospect runs enrichment, then the score, then message
\* generation, then the contact check and the write.  No enrichment service
\* is called once the score is set, and the score is that of the record as
\* enrichment left it; the message is generated after the score; the outcome
\* is decided and the table written only after the message, and the table
\* is written at most once per item.
EtapesEnrichissement ==
    {"apollo", "hunter", "google_maps", "zerobounce", "technologies", "linkedin"}

OrdreRespecte ==
    /\ \A nom \in EtapesEnrichissement :
           nom \in suivi'.appels \ suivi.appels =>
               /\ etat.prospect_complet.score = NoneNum
               /\ etat'.prospect_complet.score = NoneNum
    /\ etat'.prospect_complet.score /= etat.prospect_complet.score =>
           pc = "score" /\ pc' = "analyse"
    /\ pc' \in ApresScore =>
           etat'.prospect_complet.score =
               calculer_score(config.service_propose, etat'.prospect_complet)
    /\ "message" \in suivi'.appels \ suivi.appels =>
           /\ etat.prospect_complet.score /= NoneNum
           /\ suivi.issue = "aucune"
    /\ suivi'.issue \in {"retourne", "ignore"} /\ suivi.issue = "aucune" =>
           "message" \in suivi.appels
    /\ db' /= db =>
           /\ "message" \in suivi.appels
           /\ "ajouter_prospect" \notin suivi.appels
           /\ Len(db') = Len(db) + 1

EtapesDansLOrdre == [][OrdreRespecte]_vars

TemoinToutesLesEtapes ==
    /\ pc = "retour"
    /\ suivi.ajout
    /\ Len(db) = 1
    /\ EtapesEnrichissement \cup {"analyse", "message", "ajouter_prospect"}
           \subseteq suivi.appels
    /\ etat.prospect_complet.score > 0
    /\ db[1].score = etat.prospect_complet.score

\* C22: the Google Maps lookup of an item is invoked only when the prospect
\* has no phone at that point, neither the candidate's own from discovery nor
\* one the Apollo lookup set
AppelGoogleMapsSansTelephone ==
    "google_maps" \in suivi'.appels \ suivi.appels =>
        /\ ~Truthy(etat.prospect_complet.telephone)
        /\ ~Truthy(etat.telephone_trouve)

GoogleMapsSeulementSansTelephone == [][AppelGoogleMapsSansTelephone]_vars

\* C23: a review count the Google Maps lookup returned for the item is
\* counted by the scoring engine: the item's score is the score of its record
\* with that count as the review-count signal
ScoreAvecAvis ==
    pc \in ApresScore /\ TruthyNum(etat.prospect_complet.nb_avis_google) =>
        etat.prospect_complet.score =
            calculer_score(config.service_propose,
                           [etat.prospect_complet EXCEPT
                              !.nb_avis = etat.prospect_complet.nb_avis_google])

\* C24: calculer_score never raises: whatever the value of a field, None
\* included, a signal that cannot be read contributes zero and the score
\* returned still counts every other signal
ScoreSansIndustrie ==
    calculer_score(config.service_propose,
                   [essai.prospect EXCEPT
                      !.industrie = IF @ = Absent THEN None ELSE @])

ScoreJamaisEnException ==
    pc = "score_brut" /\ essai.fait =>
        /\ ~essai.exception
        /\ essai.prospect.industrie = None => essai.score = ScoreSansIndustrie

\* C25: the email signal adds to the score, for the weight w of the table
\* selected by the service: w for an email with status valid, 0.7 w with
\* status catch-all, 0.5 w for an email that was not verified and nothing
\* without an email.  Points are in tenths; the score returned is the
\* normalised sum of that part and of the other signals.
PartEmailAttendue ==
    LET poids_email == determiner_poids_par_service(Lower(config.service_propose)).email
        prospect == etat.prospect_complet
    IN  IF ~Truthy(prospect.email) THEN 0
        ELSE IF prospect.email_status = "valid" THEN 10 * poids_email
        ELSE IF prospect.email_status = "catch-all" THEN 7 * poids_email
        ELSE 5 * poids_email

SignalEmail ==
    pc = "analyse" =>
        etat.prospect_complet.score =
            Normaliser(SommePoints(config.service_propose,
                                   [etat.prospect_complet EXCEPT !.email = None])
                       + PartEmailAttendue)

TemoinEmailCatchAll ==
    /\ pc = "analyse"
    /\ config.service_propose = "Création de site web"
    /\ Truthy(etat.prospect_complet.email)
    /\ etat.prospect_complet.email_status = "catch-all"
    /\ ~Truthy(etat.prospect_complet.telephone)
    /\ etat.prospect_complet.score \in 12..99

\* C26: _pays_correspond is asymmetric for Canada and Québec: a Canada
\* target accepts the detected codes ca and qc, a Québec target accepts qc
\* only; for every other target the detected code must be the normalised
\* code of the target
CorrespondanceAttendue ==
    LET cible == normaliser_pays_cible(essai.pays_cible)
    IN  IF cible = "ca" THEN essai.pays_resultat \in {"ca", "qc"}
        ELSE IF cible = "qc" THEN essai.pays_resultat = "qc"
        ELSE essai.pays_resultat = cible

CanadaQuebecAsymetrique ==
    pc = "pays" /\ essai.fait => (essai.resultat <=> CorrespondanceAttendue)

TemoinQuebecRefuseCanada ==
    /\ pc = "pays"
    /\ essai.fait
    /\ essai.pays_cible = "Québec"
    /\ essai.pays_resultat = "ca"
    /\ ~essai.resultat

\* C27: during one run of lancer no candidate, identified by its name and
\* website, enters traiter_prospect twice; in particular the item dequeued
\* is never the candidate that was processed just before it
CandidatDejaTraite ==
    /\ suivi.issue /= "aucune"
    /\ suivi.entreprise = <<Or(Head(file_attente).nom_entreprise, ""),
                            Or(Head(file_attente).site_web, "")>>

JamaisDeuxFois == Defilement => ~CandidatDejaTraite

CandidatTraiteUneFois == [][JamaisDeuxFois]_vars

\* C28: with no interrupt, every call returning and every wait ending, a
\* candidate that is on the queue is eventually dequeued and its processing
\* reaches an outcome: stored, discarded for lack of contact, or failed
PairesEssai ==
    {<<"Garage Dupont", "">>,
     <<"Fiduciaire Martin", "https://www.fiduciaire-martin.ch">>}

EnFile(paire) ==
    \E i \in 1..Len(file_attente) :
        paire = <<Or(file_attente[i].nom_entreprise, ""),
                  Or(file_attente[i].site_web, "")>>

IssueAtteinte(paire) ==
    /\ suivi.entreprise = paire
    /\ suivi.issue \in {"retourne", "ignore", "echec"}
    /\ ~EnFile(paire)

ToutCandidatAboutit ==
    \A paire \in PairesEssai : EnFile(paire) ~> IssueAtteinte(paire)

TemoinFileVidee ==
    /\ pc = "boucle"
    /\ file_attente = <<>>
    /\ suivi.issue = "ignore"
    /\ suivi.entreprise = <<"Fiduciaire Martin", "https://www.fiduciaire-martin.ch">>
    /\ Len(db) = 1
    /\ db[1].nom_entreprise = "Garage Dupont"
    /\ ~suivi.interrompu

\* C29 as stated: prospect_existe(name, website) is true exactly when a
\* stored row carries that (nom_entreprise, site_web) pair
PaireStockee ==
    \E i \in 1..Len(db) :
        /\ db[i].nom_entreprise = essai.nom_entreprise
        /\ db[i].site_web = essai.site_web

ExistenceSelonLaCle ==
    essai.op = "prospect_existe" => (essai.resultat <=> PaireStockee)

\* C29, amended: prospect_existe(name, website) is true exactly when a
\* stored row has that name or, the website being non-empty, that website;
\* it is therefore true whenever the pair is stored, and also for a
\* candidate that shares only one of the two with a stored row
NomOuSiteStocke ==
    \E i \in 1..Len(db) :
        \/ db[i].nom_entreprise = essai.nom_entreprise
        \/ Truthy(essai.site_web) /\ db[i].site_web = essai.site_web

ExistenceParNomOuSite ==
    essai.op = "prospect_existe" =>
        /\ essai.resultat <=> NomOuSiteStocke
        /\ PaireStockee => essai.resultat

TemoinExisteSansLaPaire ==
    /\ essai.op = "prospect_existe"
    /\ essai.resultat
    /\ ~PaireStockee
    /\ essai.nom_entreprise = "Fiduciaire Martin"
    /\ essai.site_web = "https://www.garage-dupont.ch"
    /\ \A i \in 1..Len(db) : db[i].nom_entreprise = "Garage Dupont"

\* C30: an item whose website is known when enrichment ends, whichever
\* source gave it, has been through email discovery: no item is stored or
\* discarded with a website and without an email unless Hunter was called
HunterEssayeSiSiteConnu ==
    /\ pc = "retour"
    /\ Truthy(etat.prospect_complet.site_web)
    /\ ~Truthy(etat.prospect_complet.email)
    => "hunter" \in suivi.appels

====
